---- MODULE Spec2Model ----
(***************************************************************************)
(* A model of the hyperscript usage scanner                                *)
(* (packages/hyperfixi-python/hyperfixi/scanner.py).                       *)
(*                                                                         *)
(* Paths and file contents are sequences of one-character strings, so     *)
(* that Path.suffix, str.lower, the substring test of should_scan and the  *)
(* regular expressions of the pattern catalogue are computed character by  *)
(* character.                                                              *)
(***************************************************************************)
EXTENDS Integers, Sequences, FiniteSets, TLC

VARIABLES
    \* --- FileUsage.merge exercised on three records
    mA, mB, mC, mOut,
    \* --- the Scanner object (Scanner.__init__)
    include_extensions, exclude_patterns, debug,
    \* --- one should_scan call
    ssPath, ssRes,
    \* --- the environment: the paths whose diagnostic line standard output
    \*     rejects (print raises, e.g. UnicodeEncodeError)
    stdout_rejects,
    \* --- one scan_content call
    content, file_path, scripts, next_script, usage, cpc,
    \* --- the file system: for each file whether it can be read, and its text
    fs, changes,
    \* --- one scan_directories call: the directories, the index of the one
    \*     being scanned, the entries rglob has still to yield, the dict built
    \*     by scan_directory and the dict built by scan_directories
    roots, ri, pc, pending, dir_results, results,
    \* --- history: what scan_file returned for each file of this directory,
    \*     how often each file was read and each key written, and the dict
    \*     each scan_directory call returned
    scanned, reads, writes, root_results,
    \* --- the AggregatedUsage built from the results
    agg,
    \* --- the outcome of the same call on the scanner with debug off
    quiet,
    \* --- what scan_content computes for each text a file of the tree may
    \*     hold: a function of the text alone, tabulated when the call starts
    usage_of

mergeVars == <<mA, mB, mC, mOut>>
scannerVars == <<include_extensions, exclude_patterns, debug>>
shouldVars == <<ssPath, ssRes>>
contentVars == <<content, file_path, scripts, next_script, usage, cpc>>
fsVars == <<fs, changes>>
dirVars == <<roots, ri, pc, pending, dir_results, results>>
histVars == <<scanned, reads, writes, root_results>>
treeVars == <<fsVars, dirVars, histVars, agg, quiet, usage_of>>
vars == <<mergeVars, scannerVars, shouldVars, stdout_rejects, contentVars, treeVars>>

(***************************************************************************)
(* FileUsage                                                               *)
(***************************************************************************)

\* FileUsage(): the dataclass defaults.
EmptyUsage == [commands |-> {}, blocks |-> {}, positional |-> FALSE]

\* A plausible slip: FileUsage without __bool__, so every instance is truthy.
UsageBoolAlways(u) == TRUE

\* FileUsage.__bool__
UsageBool(u) == (u.commands # {}) \/ (u.blocks # {}) \/ u.positional

\* A plausible slip in merge: the flag is assigned from other instead of
\* being raised only when other has it.
MergeAssignsFlag(self, other) ==
    [commands   |-> self.commands \cup other.commands,
     blocks     |-> self.blocks \cup other.blocks,
     positional |-> other.positional]

\* Another one: the snippet's usage replaces the accumulated one.
MergeOverwrites(self, other) == other

\* FileUsage.merge(self, other): the value of self after the in-place merge.
Merge(self, other) ==
    [commands   |-> self.commands \cup other.commands,
     blocks     |-> self.blocks \cup other.blocks,
     positional |-> IF other.positional THEN TRUE ELSE self.positional]

(***************************************************************************)
(* Character strings                                                       *)
(***************************************************************************)

S_html == <<".", "h", "t", "m", "l">>
S_htm == <<".", "h", "t", "m">>
S_txt == <<".", "t", "x", "t">>
S_xml == <<".", "x", "m", "l">>
S_jinja == <<".", "j", "i", "n", "j", "a">>
S_jinja2 == <<".", "j", "i", "n", "j", "a", "2">>
S_HTML == <<".", "H", "T", "M", "L">>
S_py == <<".", "p", "y">>
S_pycache == <<"_", "_", "p", "y", "c", "a", "c", "h", "e", "_", "_">>
S_git == <<".", "g", "i", "t">>
S_node_modules == <<"n", "o", "d", "e", "_", "m", "o", "d", "u", "l", "e", "s">>
S_dotvenv == <<".", "v", "e", "n", "v">>
S_venv == <<"v", "e", "n", "v">>
S_site_packages == <<"s", "i", "t", "e", "-", "p", "a", "c", "k", "a", "g", "e", "s">>
S_slash == <<"/">>
S_t == <<"t">>
S_a == <<"a">>

UpperLetters == <<"A", "B", "C", "D", "E", "F", "G", "H", "I", "J", "K", "L", "M",
                  "N", "O", "P", "Q", "R", "S", "T", "U", "V", "W", "X", "Y", "Z">>
LowerLetters == <<"a", "b", "c", "d", "e", "f", "g", "h", "i", "j", "k", "l", "m",
                  "n", "o", "p", "q", "r", "s", "t", "u", "v", "w", "x", "y", "z">>

\* str.lower on one character.
LowerChar(c) ==
    IF \E i \in 1..26 : UpperLetters[i] = c
    THEN LowerLetters[CHOOSE i \in 1..26 : UpperLetters[i] = c]
    ELSE c

\* str.lower
LowerStr(str) == [i \in 1..Len(str) |-> LowerChar(str[i])]

\* pattern in path_str (substring test); the empty pattern is in every string.
Contains(pattern, str) ==
    \E i \in 1..(Len(str) - Len(pattern) + 1) :
        SubSeq(str, i, i + Len(pattern) - 1) = pattern

\* str.rfind(c): the last index of c, 0 when absent (Python's -1).
RFind(str, c) ==
    IF \E i \in 1..Len(str) : str[i] = c
    THEN CHOOSE i \in 1..Len(str) :
            str[i] = c /\ \A j \in (i + 1)..Len(str) : str[j] # c
    ELSE 0

\* Path.name: the final component of the path.
PathName(path) == SubSeq(path, RFind(path, "/") + 1, Len(path))

\* Path.suffix: the final component from its last dot on, unless that dot
\* starts or ends the component.
PathSuffix(path) ==
    LET name == PathName(path)
        i == RFind(name, ".")
    IN  IF 1 < i /\ i < Len(name) THEN SubSeq(name, i, Len(name)) ELSE <<>>

(***************************************************************************)
(* Scanner.__init__ and should_scan                                        *)
(***************************************************************************)

DefaultIncludeExtensions == {S_html, S_htm, S_txt, S_xml, S_jinja, S_jinja2}
DefaultExcludePatterns ==
    <<S_pycache, S_git, S_node_modules, S_dotvenv, S_venv, S_site_packages>>

\* An argument left out (None) is the record with given = FALSE.
NoArg == [given |-> FALSE, value |-> {}]
NoListArg == [given |-> FALSE, value |-> <<>>]
Arg(v) == [given |-> TRUE, value |-> v]

\* include_extensions or {...}: None and the empty set both give the default.
InitIncludeExtensions(arg) ==
    IF arg.given /\ arg.value # {} THEN arg.value ELSE DefaultIncludeExtensions

\* exclude_patterns or [...]: None and the empty list both give the default.
InitExcludePatterns(arg) ==
    IF arg.given /\ arg.value # <<>> THEN arg.value ELSE DefaultExcludePatterns

\* Scanner.should_scan
ShouldScan(path) ==
    IF LowerStr(PathSuffix(path)) \notin include_extensions
    THEN FALSE
    ELSE ~ \E k \in 1..Len(exclude_patterns) : Contains(exclude_patterns[k], path)


(***************************************************************************)
(* Regular-expression primitives over character strings                    *)
(***************************************************************************)

Digits == {"0", "1", "2", "3", "4", "5", "6", "7", "8", "9"}
Letters == {UpperLetters[i] : i \in 1..26} \cup {LowerLetters[i] : i \in 1..26}

\* \w
IsWordChar(c) == c \in Letters \/ c \in Digits \/ c = "_"

\* \s
IsSpace(c) == c \in {" ", "\n", "\t"}

Min(S) == CHOOSE x \in S : \A y \in S : x <= y

\* The literal lit stands in str at index i.
StartsAt(str, i, lit) ==
    /\ i >= 1
    /\ i + Len(lit) - 1 <= Len(str)
    /\ \A k \in 1..Len(lit) : str[i + k - 1] = lit[k]

\* The same under re.IGNORECASE; lit is written in lower case.
StartsAtCI(str, i, lit) ==
    /\ i >= 1
    /\ i + Len(lit) - 1 <= Len(str)
    /\ \A k \in 1..Len(lit) : LowerChar(str[i + k - 1]) = lit[k]

\* The index of the first character at or after i that is in stop,
\* Len(str) + 1 when there is none: where a greedy [^stop]* ends.
RunEnd(str, i, stop) ==
    LET S == {j \in i..Len(str) : str[j] \in stop}
    IN  IF S = {} THEN Len(str) + 1 ELSE Min(S)

\* Where a greedy \s* starting at i ends.
SkipSpaces(str, i) ==
    LET S == {j \in i..Len(str) : ~IsSpace(str[j])}
    IN  IF S = {} THEN Len(str) + 1 ELSE Min(S)

\* \b holds just before index i (between str[i-1] and str[i]).
Boundary(str, i) ==
    LET before == i > 1 /\ i - 1 <= Len(str) /\ IsWordChar(str[i - 1])
        after  == i >= 1 /\ i <= Len(str) /\ IsWordChar(str[i])
    IN  before # after

\* \bword\b under re.IGNORECASE matches at index i.
WordAt(str, i, word) ==
    /\ StartsAtCI(str, i, word)
    /\ Boundary(str, i)
    /\ Boundary(str, i + Len(word))

\* pattern.search(str) for \bword\b.
HasWord(str, word) == \E i \in 1..Len(str) : WordAt(str, i, word)

\* str.strip()
Strip(str) ==
    LET S == {j \in 1..Len(str) : ~IsSpace(str[j])}
    IN  IF S = {} THEN <<>>
        ELSE SubSeq(str, Min(S), CHOOSE x \in S : \A y \in S : y <= x)

\* The backquote character (written as a name: a backquote inside a string
\* literal is not accepted by the parser).
BQ == "BQ"

\* A match: end is the index after the match (0: no match), the group is
\* str[gs .. ge - 1].
NoMatch == [end |-> 0, gs |-> 0, ge |-> 0]

(***************************************************************************)
(* HYPERSCRIPT_PATTERNS                                                    *)
(***************************************************************************)

L_attr_dq == <<"_", "=", "\"">>
L_attr_sq == <<"_", "=", "'">>
L_attr_bt == <<"_", "=", BQ>>
L_jsx_bt == <<"_", "=", "{", BQ>>
L_jsx_dq == <<"_", "=", "{", "\"">>
L_jsx_sq == <<"_", "=", "{", "'">>
L_data_dq == <<"d", "a", "t", "a", "-", "h", "s", "=", "\"">>
L_data_sq == <<"d", "a", "t", "a", "-", "h", "s", "=", "'">>
L_tag_open == <<"{", "%">>
L_tag_close == <<"%", "}">>
L_hs == <<"h", "s">>
L_endhs == <<"e", "n", "d", "h", "s">>
L_hs_attr == <<"h", "s", "_", "a", "t", "t", "r">>
L_hs_script == <<"h", "s", "_", "s", "c", "r", "i", "p", "t">>
L_script_open == <<"<", "s", "c", "r", "i", "p", "t">>
L_type_eq == <<"t", "y", "p", "e", "=">>
L_text_hyperscript ==
    <<"t", "e", "x", "t", "/", "h", "y", "p", "e", "r", "s", "c", "r", "i", "p", "t">>
L_script_close == <<"<", "/", "s", "c", "r", "i", "p", "t", ">">>
L_brace_close == <<"}">>

\* open([^stop]{min,})c tail, with open one of opens and c one of stop:
\* the attribute and JSX carriers.
Delimited(str, i, opens, stop, min, tail) ==
    LET os == {o \in opens : StartsAt(str, i, o)}
    IN  IF os = {} THEN NoMatch
        ELSE LET o  == CHOOSE x \in os : TRUE
                 gs == i + Len(o)
                 ge == RunEnd(str, gs, stop)
             IN  IF ge <= Len(str) /\ ge - gs >= min /\ StartsAt(str, ge + 1, tail)
                 THEN [end |-> ge + 1 + Len(tail), gs |-> gs, ge |-> ge]
                 ELSE NoMatch

\* \{%\s*name\s*%\} at index i: the index after it, 0 when it does not match.
TagEnd(str, i, name) ==
    IF ~StartsAt(str, i, L_tag_open) THEN 0
    ELSE LET a == SkipSpaces(str, i + 2)
         IN  IF ~StartsAt(str, a, name) THEN 0
             ELSE LET b == SkipSpaces(str, a + Len(name))
                  IN  IF StartsAt(str, b, L_tag_close) THEN b + 2 ELSE 0

\* \{%\s*hs\s*%\}(.*?)\{%\s*endhs\s*%\} with re.DOTALL.
BlockTag(str, i) ==
    LET gs == TagEnd(str, i, L_hs)
    IN  IF gs = 0 THEN NoMatch
        ELSE LET closes == {j \in gs..Len(str) : TagEnd(str, j, L_endhs) # 0}
             IN  IF closes = {} THEN NoMatch
                 ELSE LET ge == Min(closes)
                      IN  [end |-> TagEnd(str, ge, L_endhs), gs |-> gs, ge |-> ge]

\* \{%\s*name\s+q([^q]+)q\s*%\} for the quote character q.
SimpleTag(str, i, name, q) ==
    IF ~StartsAt(str, i, L_tag_open) THEN NoMatch
    ELSE LET a == SkipSpaces(str, i + 2)
             b == a + Len(name)
             c == SkipSpaces(str, b)
             ge == RunEnd(str, c + 1, {q})
         IN  IF /\ StartsAt(str, a, name)
                /\ c > b
                /\ StartsAt(str, c, <<q>>)
                /\ ge <= Len(str)
                /\ ge - (c + 1) >= 1
                /\ StartsAt(str, SkipSpaces(str, ge + 1), L_tag_close)
             THEN [end |-> SkipSpaces(str, ge + 1) + 2, gs |-> c + 1, ge |-> ge]
             ELSE NoMatch

\* <script[^>]*type=["']?text/hyperscript["']?[^>]*>(.*?)</script>
\* with re.DOTALL | re.IGNORECASE.
ScriptTag(str, i) ==
    IF ~StartsAtCI(str, i, L_script_open) THEN NoMatch
    ELSE LET gt == RunEnd(str, i + 7, {">"})
             types == {j \in (i + 7)..Len(str) :
                         /\ j < gt
                         /\ StartsAtCI(str, j, L_type_eq)
                         /\ LET k == IF j + 5 <= Len(str) /\ str[j + 5] \in {"\"", "'"}
                                     THEN j + 6 ELSE j + 5
                            IN  StartsAtCI(str, k, L_text_hyperscript)}
             closes == {j \in (gt + 1)..Len(str) : StartsAtCI(str, j, L_script_close)}
         IN  IF gt > Len(str) \/ types = {} \/ closes = {} THEN NoMatch
             ELSE [end |-> Min(closes) + 9, gs |-> gt + 1, ge |-> Min(closes)]

NumPatterns == 13

\* HYPERSCRIPT_PATTERNS[k - 1] matched at index i of str.
MatchAt(k, str, i) ==
    CASE k = 1  -> Delimited(str, i, {L_attr_dq}, {"\""}, 0, <<>>)
      [] k = 2  -> Delimited(str, i, {L_attr_sq}, {"'"}, 0, <<>>)
      [] k = 3  -> Delimited(str, i, {L_attr_bt}, {BQ}, 0, <<>>)
      [] k = 4  -> Delimited(str, i, {L_jsx_bt}, {BQ}, 1, L_brace_close)
      [] k = 5  -> Delimited(str, i, {L_jsx_dq, L_jsx_sq}, {"'", "\""}, 1, L_brace_close)
      [] k = 6  -> Delimited(str, i, {L_data_dq}, {"\""}, 0, <<>>)
      [] k = 7  -> Delimited(str, i, {L_data_sq}, {"'"}, 0, <<>>)
      [] k = 8  -> BlockTag(str, i)
      [] k = 9  -> SimpleTag(str, i, L_hs_attr, "\"")
      [] k = 10 -> SimpleTag(str, i, L_hs_attr, "'")
      [] k = 11 -> SimpleTag(str, i, L_hs_script, "\"")
      [] k = 12 -> SimpleTag(str, i, L_hs_script, "'")
      [] k = 13 -> ScriptTag(str, i)

\* pattern.finditer(content): the stripped, non-empty groups of the
\* successive leftmost matches from index pos on.
RECURSIVE FindIter(_, _, _)
FindIter(k, str, pos) ==
    LET starts == {i \in pos..Len(str) : MatchAt(k, str, i).end # 0}
    IN  IF starts = {} THEN <<>>
        ELSE LET m == MatchAt(k, str, Min(starts))
                 script == Strip(SubSeq(str, m.gs, m.ge - 1))
             IN  (IF script # <<>> THEN <<script>> ELSE <<>>)
                 \o FindIter(k, str, m.end)

RECURSIVE ExtractFrom(_, _)
ExtractFrom(k, text) ==
    IF k > NumPatterns THEN <<>>
    ELSE FindIter(k, text, 1) \o ExtractFrom(k + 1, text)

\* Scanner.extract_hyperscript
ExtractHyperscript(text) == ExtractFrom(1, text)


(***************************************************************************)
(* COMMAND_PATTERN, BLOCK_PATTERNS, POSITIONAL_PATTERN and analyze_script   *)
(***************************************************************************)

\* The alternatives of COMMAND_PATTERN, lower-cased (re.IGNORECASE).
COMMAND_WORDS ==
    {<<"t", "o", "g", "g", "l", "e">>,
     <<"a", "d", "d">>,
     <<"r", "e", "m", "o", "v", "e">>,
     <<"r", "e", "m", "o", "v", "e", "c", "l", "a", "s", "s">>,
     <<"s", "h", "o", "w">>,
     <<"h", "i", "d", "e">>,
     <<"s", "e", "t">>,
     <<"g", "e", "t">>,
     <<"p", "u", "t">>,
     <<"a", "p", "p", "e", "n", "d">>,
     <<"t", "a", "k", "e">>,
     <<"i", "n", "c", "r", "e", "m", "e", "n", "t">>,
     <<"d", "e", "c", "r", "e", "m", "e", "n", "t">>,
     <<"l", "o", "g">>,
     <<"s", "e", "n", "d">>,
     <<"t", "r", "i", "g", "g", "e", "r">>,
     <<"w", "a", "i", "t">>,
     <<"t", "r", "a", "n", "s", "i", "t", "i", "o", "n">>,
     <<"g", "o">>,
     <<"c", "a", "l", "l">>,
     <<"f", "o", "c", "u", "s">>,
     <<"b", "l", "u", "r">>,
     <<"r", "e", "t", "u", "r", "n">>}

W_if == <<"i", "f">>
W_unless == <<"u", "n", "l", "e", "s", "s">>
W_repeat == <<"r", "e", "p", "e", "a", "t">>
W_for == <<"f", "o", "r">>
W_each == <<"e", "a", "c", "h">>
W_every == <<"e", "v", "e", "r", "y">>
W_while == <<"w", "h", "i", "l", "e">>
W_fetch == <<"f", "e", "t", "c", "h">>
W_async == <<"a", "s", "y", "n", "c">>
W_time == <<"t", "i", "m", "e">>
W_times == <<"t", "i", "m", "e", "s">>

\* The alternatives of POSITIONAL_PATTERN.
POSITIONAL_WORDS ==
    {<<"f", "i", "r", "s", "t">>,
     <<"l", "a", "s", "t">>,
     <<"n", "e", "x", "t">>,
     <<"p", "r", "e", "v", "i", "o", "u", "s">>,
     <<"c", "l", "o", "s", "e", "s", "t">>,
     <<"p", "a", "r", "e", "n", "t">>}

\* The keys of BLOCK_PATTERNS, in the dict's order.
BLOCK_NAMES == <<"if", "unless", "repeat", "for", "while", "fetch", "async">>

VALID_BLOCKS == {"if", "repeat", "for", "while", "fetch", "async"}

\* (\d+|:\w+|\$\w+|[\w.]+) followed by \s: the run of non-blank characters
\* from index i on is a count.
IsRepeatCount(str, i, e) ==
    /\ e > i
    /\ \/ \A j \in i..(e - 1) : IsWordChar(str[j]) \/ str[j] = "."
       \/ /\ str[i] \in {":", "$"}
          /\ e > i + 1
          /\ \A j \in (i + 1)..(e - 1) : IsWordChar(str[j])

\* \brepeat\s+(\d+|:\w+|\$\w+|[\w.]+)\s+times?\b
RepeatAt(str, i) ==
    /\ StartsAtCI(str, i, W_repeat)
    /\ Boundary(str, i)
    /\ LET a == SkipSpaces(str, i + 6)
           e == RunEnd(str, a, {" ", "\n", "\t"})
           t == SkipSpaces(str, e)
       IN  /\ a > i + 6
           /\ IsRepeatCount(str, a, e)
           /\ t > e
           /\ \/ StartsAtCI(str, t, W_times) /\ Boundary(str, t + 5)
              \/ StartsAtCI(str, t, W_time) /\ Boundary(str, t + 4)

\* \bfor\s+(each|every)\b
ForAt(str, i) ==
    /\ StartsAtCI(str, i, W_for)
    /\ Boundary(str, i)
    /\ LET a == SkipSpaces(str, i + 3)
       IN  /\ a > i + 3
           /\ \/ StartsAtCI(str, a, W_each) /\ Boundary(str, a + 4)
              \/ StartsAtCI(str, a, W_every) /\ Boundary(str, a + 5)

\* BLOCK_PATTERNS[name].search(script)
BlockSearch(name, script) ==
    CASE name = "if"     -> HasWord(script, W_if)
      [] name = "unless" -> HasWord(script, W_unless)
      [] name = "repeat" -> \E i \in 1..Len(script) : RepeatAt(script, i)
      [] name = "for"    -> \E i \in 1..Len(script) : ForAt(script, i)
      [] name = "while"  -> HasWord(script, W_while)
      [] name = "fetch"  -> HasWord(script, W_fetch)
      [] name = "async"  -> HasWord(script, W_async)

\* A plausible slip: the matched key is added under its own name.
BlockKindAsMatched(block_name) == block_name

\* The name added to usage.blocks for a matching key of BLOCK_PATTERNS.
BlockKind(block_name) == IF block_name = "unless" THEN "if" ELSE block_name

\* Scanner.analyze_script
AnalyzeScript(script) ==
    [commands   |-> {w \in COMMAND_WORDS : HasWord(script, w)},
     blocks     |-> {BlockKind(BLOCK_NAMES[n]) :
                        n \in {m \in 1..Len(BLOCK_NAMES) :
                                  BlockSearch(BLOCK_NAMES[m], script)}},
     positional |-> \E w \in POSITIONAL_WORDS : HasWord(script, w)]

\* The loop of scan_content: each snippet's usage merged into the usage
\* accumulated so far.
RECURSIVE FoldScripts(_, _)
FoldScripts(acc, rest) ==
    IF rest = <<>> THEN acc
    ELSE FoldScripts(Merge(acc, AnalyzeScript(Head(rest))), Tail(rest))

\* The FileUsage scan_content computes for a text.
ScanContentUsage(text) == FoldScripts(EmptyUsage, ExtractHyperscript(text))


\* print(...) of a diagnostic line naming path succeeds.
PrintSucceeds(path) == path \notin stdout_rejects

\* The default of scan_content's file_path argument: "<string>".
S_string == <<"<", "s", "t", "r", "i", "n", "g", ">">>

P_show == <<"_", "=", "\"", "S", "h", "o", "w", " ", "f", "i", "r", "s", "t", "\"">>
P_unless == <<"_", "=", "\"", "u", "n", "l", "e", "s", "s", " ", "x", "\"">>
P_if == <<"_", "=", "'", "i", "f", " ", "y", "'">>
P_both == <<"_", "=", "\"", "i", "f", " ", "a", " ", "U", "n", "l", "e", "s", "s", " ", "b", "\"">>
P_hs == <<"{", "%", " ", "h", "s", " ", "%", "}">>
P_endhs == <<"{", "%", " ", "e", "n", "d", "h", "s", " ", "%", "}">>

(***************************************************************************)
(* The directory tree, scan_file, scan_directory and scan_directories      *)
(***************************************************************************)

\* The tree:   t/a.html   t/s/   t/s/b.HTM   t/s/venv.html
\* and the directory u, which does not exist.
R_t == <<"t">>
R_ts == <<"t", "/", "s">>
R_u == <<"u">>
F_a == <<"t", "/", "a", ".", "h", "t", "m", "l">>
F_b == <<"t", "/", "s", "/", "b", ".", "H", "T", "M">>
F_v == <<"t", "/", "s", "/", "v", "e", "n", "v", ".", "h", "t", "m", "l">>

Files == {F_a, F_b, F_v}
Directories == {R_t, R_ts}
Entries == Files \cup {R_ts}
Roots == {R_t, R_ts, R_u}

\* directory.exists()
Exists(directory) == directory \in Directories

\* path.is_file()
IsFile(path) == path \in Files

\* directory.rglob("*"): every entry below the directory.
RGlob(directory) == {e \in Entries : StartsAt(e, 1, directory \o S_slash)}

\* Texts a file may hold: no carrier at all; two attribute snippets;
\* a block tag around an unless.
T_plain == <<"<", "p", ">", "t", "o", "g", "g", "l", "e", "<", "/", "p", ">">>
T_attrs == P_show \o <<" ">> \o P_if
T_block == P_hs \o <<"u", "n", "l", "e", "s", "s", " ", "x", " ", "l", "a", "s", "t">> \o P_endhs
FileTexts == {T_plain, T_attrs, T_block}

\* What a file can be: unreadable (read_text raises), or readable with a text.
Unreadable == [readable |-> FALSE, text |-> <<>>]
FileStates == {Unreadable} \cup {[readable |-> TRUE, text |-> t] : t \in FileTexts}

\* scan_content's usage for each text a file may hold.
ContentUsage == [t \in FileTexts |-> ScanContentUsage(t)]

\* An outcome of scan_content or scan_file: an exception, or a FileUsage.
Raised == [raised |-> TRUE, usage |-> EmptyUsage]
Returned(u) == [raised |-> FALSE, usage |-> u]

\* Scanner.scan_content(content, file_path): the usage, after the diagnostic
\* line when debug is on and the usage is not empty.
ScanContent(text, label) ==
    LET u == usage_of[text]
    IN  IF debug /\ UsageBool(u) /\ ~PrintSucceeds(label) THEN Raised
        ELSE Returned(u)

\* The except branch of scan_file: the diagnostic line when debug is on,
\* then an empty FileUsage.
ScanFileHandler(path) ==
    IF debug /\ ~PrintSucceeds(path) THEN Raised ELSE Returned(EmptyUsage)

\* Scanner.scan_file(path)
ScanFile(path) ==
    IF ~fs[path].readable THEN ScanFileHandler(path)
    ELSE LET out == ScanContent(fs[path].text, path)
         IN  IF out.raised THEN ScanFileHandler(path) ELSE out

\* dicts from path strings to FileUsage
EmptyMap == [p \in {} |-> EmptyUsage]
Put(m, k, v) == [p \in DOMAIN m \cup {k} |-> IF p = k THEN v ELSE m[p]]

\* A plausible slip: the later dict's entries are merged into the earlier
\* ones instead of replacing them.
UpdateMerging(m, other) ==
    [p \in DOMAIN m \cup DOMAIN other |->
        IF p \in DOMAIN other
        THEN (IF p \in DOMAIN m THEN Merge(m[p], other[p]) ELSE other[p])
        ELSE m[p]]

\* results.update(dir_results)
Update(m, other) ==
    [p \in DOMAIN m \cup DOMAIN other |->
        IF p \in DOMAIN other THEN other[p] ELSE m[p]]

\* A plausible slip: the emptiness test is left out.
InsertAlways(m, path, u) == Put(m, path, u)

\* Another one: one FileUsage object is reused for every file, so each
\* entry also carries what the files visited before it used.
RECURSIVE MergeAll(_, _)
MergeAll(m, u) ==
    IF DOMAIN m = {} THEN u
    ELSE LET p == CHOOSE q \in DOMAIN m : TRUE
         IN  MergeAll([q \in DOMAIN m \ {p} |-> m[q]], Merge(u, m[p]))
InsertShared(m, path, u) ==
    IF UsageBool(MergeAll(m, u)) THEN Put(m, path, MergeAll(m, u)) ELSE m

\* if usage: results[str(path)] = usage
Insert(m, path, u) == IF UsageBool(u) THEN Put(m, path, u) ELSE m

\* AggregatedUsage(): the dataclass defaults.
EmptyAggregate ==
    [commands |-> {}, blocks |-> {}, positional |-> FALSE, file_usage |-> EmptyMap]

\* One file's usage folded into the aggregate.  scanner.py declares only the
\* dataclass; the fold is the one its documented invariant describes.
AggregateAdd(a, path, u) ==
    [commands   |-> a.commands \cup u.commands,
     blocks     |-> a.blocks \cup u.blocks,
     positional |-> a.positional \/ u.positional,
     file_usage |-> Put(a.file_usage, path, u)]

NoReads == [f \in Files |-> 0]

IdleTree ==
    /\ fs = [f \in Files |-> Unreadable]
    /\ changes = 0
    /\ roots = <<>>
    /\ ri = 0
    /\ pc = "idle"
    /\ pending = {}
    /\ dir_results = EmptyMap
    /\ results = EmptyMap
    /\ scanned = EmptyMap
    /\ reads = NoReads
    /\ writes = NoReads
    /\ root_results = <<>>
    /\ agg = EmptyAggregate
    /\ quiet = [kind |-> "none"]
    /\ usage_of = <<>>


(***************************************************************************)
(* Specification SpecMerge: merge applied to three arbitrary records.      *)
(***************************************************************************)

MaxMergeCmds == 2
MergeCmdPool ==
    <<<<"t", "o", "g", "g", "l", "e">>, <<"s", "h", "o", "w">>,
      <<"a", "d", "d">>, <<"h", "i", "d", "e">>>>
MergeCmds == {MergeCmdPool[i] : i \in 1..MaxMergeCmds}
MergeBlocks == {"if", "for"}
MergeUsages == [commands : SUBSET MergeCmds, blocks : SUBSET MergeBlocks,
                positional : BOOLEAN]

IdleScanner ==
    /\ include_extensions = {}
    /\ exclude_patterns = <<>>
    /\ debug = FALSE
IdleShould == ssPath = <<>> /\ ssRes = FALSE
IdleContent ==
    /\ content = <<>>
    /\ file_path = <<>>
    /\ scripts = <<>>
    /\ next_script = 1
    /\ usage = EmptyUsage
    /\ cpc = "idle"
IdleMerge == mA = EmptyUsage /\ mB = EmptyUsage /\ mC = EmptyUsage /\ mOut = [kind |-> "none"]

InitMerge ==
    /\ mA \in MergeUsages
    /\ mB \in MergeUsages
    /\ mC \in MergeUsages
    /\ mOut = [kind |-> "none"]
    /\ IdleScanner
    /\ IdleShould
    /\ stdout_rejects = {}
    /\ IdleContent
    /\ IdleTree

\* a.merge(b) and b.merge(a) on copies of the inputs.
MergePair ==
    /\ mOut.kind = "none"
    /\ mOut' = [kind |-> "pair", ab |-> Merge(mA, mB), ba |-> Merge(mB, mA)]
    /\ UNCHANGED <<mA, mB, mC, scannerVars, shouldVars, stdout_rejects, contentVars, treeVars>>

\* (a.merge(b)).merge(c) against a.merge(b.merge(c)).
MergeTriple ==
    /\ mOut.kind = "none"
    /\ mOut' = [kind |-> "triple",
                left  |-> Merge(Merge(mA, mB), mC),
                right |-> Merge(mA, Merge(mB, mC))]
    /\ UNCHANGED <<mA, mB, mC, scannerVars, shouldVars, stdout_rejects, contentVars, treeVars>>

\* a.merge(a): other is the very object being updated.
MergeSelf ==
    /\ mOut.kind = "none"
    /\ mOut' = [kind |-> "self", before |-> mA, after |-> Merge(mA, mA)]
    /\ UNCHANGED <<mA, mB, mC, scannerVars, shouldVars, stdout_rejects, contentVars, treeVars>>

NextMerge == MergePair \/ MergeTriple \/ MergeSelf

SpecMerge == InitMerge /\ [][NextMerge]_vars

\* C1: merge is commutative, associative and idempotent on FileUsage values.
MergeIsSemilattice ==
    /\ mOut.kind = "pair" => mOut.ab = mOut.ba
    /\ mOut.kind = "triple" => mOut.left = mOut.right
    /\ mOut.kind = "self" => mOut.after = mOut.before

\* Two records that differ in every field have been merged both ways.
MergeWitness ==
    /\ mOut.kind = "pair"
    /\ mA.positional /\ ~mB.positional
    /\ mA.commands = {MergeCmdPool[1]} /\ mB.commands = {MergeCmdPool[2]}
    /\ mA.blocks = {"if"} /\ mB.blocks = {"for"}
    /\ mOut.ab.commands = {MergeCmdPool[1], MergeCmdPool[2]}

(***************************************************************************)
(* Specification SpecShouldScan: a scanner built from arbitrary arguments  *)
(* answers should_scan for arbitrary paths.                                *)
(***************************************************************************)

MaxPathPieces == 4
PathPieces == {S_t, S_slash, S_a, S_html, S_HTML, S_py, S_node_modules, S_git}

RECURSIVE PiecePaths(_)
PiecePaths(n) ==
    IF n = 0 THEN {<<>>}
    ELSE LET shorter == PiecePaths(n - 1)
         IN  shorter \cup {p \o q : p \in shorter, q \in PathPieces}

\* str(path) of a pathlib.Path: not empty, no doubled or trailing separator.
IsPathString(str) ==
    /\ str # <<>>
    /\ ~Contains(<<"/", "/">>, str)
    /\ (Len(str) > 1 => str[Len(str)] # "/")

ScanPaths == {p \in PiecePaths(MaxPathPieces) : IsPathString(p)}

IncludeArgs == {NoArg, Arg({}), Arg({S_html}), Arg({S_HTML}), Arg({S_py, S_htm})}
ExcludeArgs == {NoListArg, Arg(<<>>), Arg(<<S_node_modules>>), Arg(<<S_git, S_a>>)}

InitShouldScan ==
    /\ \E inc \in IncludeArgs : include_extensions = InitIncludeExtensions(inc)
    /\ \E exc \in ExcludeArgs : exclude_patterns = InitExcludePatterns(exc)
    /\ debug \in BOOLEAN
    /\ ssPath = <<>>
    /\ ssRes = FALSE
    /\ IdleMerge
    /\ stdout_rejects = {}
    /\ IdleContent
    /\ IdleTree

\* One call scanner.should_scan(path).
ShouldScanCall ==
    \E path \in ScanPaths :
        /\ ssPath = <<>>
        /\ ssPath' = path
        /\ ssRes' = ShouldScan(path)
        /\ UNCHANGED <<mergeVars, scannerVars, stdout_rejects, contentVars, treeVars>>

NextShouldScan == ShouldScanCall

SpecShouldScan == InitShouldScan /\ [][NextShouldScan]_vars

\* The extension of the path is in the configured set when both are
\* compared without regard to case.
ExtensionEligible(path) ==
    \E ext \in include_extensions : LowerStr(ext) = LowerStr(PathSuffix(path))

\* The path string contains one of the configured exclusion substrings.
PathExcluded(path) ==
    \E k \in 1..Len(exclude_patterns) : Contains(exclude_patterns[k], path)

\* C4: should_scan(path) is true exactly when the extension, compared
\* case-insensitively, is in include_extensions and the path string contains
\* no exclude_patterns substring.
ShouldScanIsCaseInsensitive ==
    ssPath # <<>> =>
        (ssRes <=> (ExtensionEligible(ssPath) /\ ~PathExcluded(ssPath)))

(***************************************************************************)
(* Specification SpecContent: scan_content on arbitrary content, one       *)
(* snippet per step.                                                       *)
(***************************************************************************)

MaxContentPieces == 3
ContentPieces == {P_show, P_unless, P_if, P_both, P_hs, P_endhs}

RECURSIVE PieceContents(_)
PieceContents(n) ==
    IF n = 0 THEN {<<>>}
    ELSE LET shorter == PieceContents(n - 1)
         IN  shorter \cup {p \o q : p \in shorter, q \in ContentPieces}

InitContent ==
    /\ include_extensions = InitIncludeExtensions(NoArg)
    /\ exclude_patterns = InitExcludePatterns(NoListArg)
    /\ debug \in BOOLEAN
    /\ content \in PieceContents(MaxContentPieces)
    /\ file_path = S_string
    /\ stdout_rejects \in SUBSET {S_string}
    /\ scripts = <<>>
    /\ next_script = 1
    /\ usage = EmptyUsage
    /\ cpc = "call"
    /\ IdleMerge
    /\ IdleShould
    /\ IdleTree

\* usage = FileUsage(); scripts = self.extract_hyperscript(content)
Extract ==
    /\ cpc = "call"
    /\ usage' = EmptyUsage
    /\ scripts' = ExtractHyperscript(content)
    /\ next_script' = 1
    /\ cpc' = "loop"
    /\ UNCHANGED <<content, file_path, mergeVars, scannerVars, shouldVars, stdout_rejects, treeVars>>

\* One iteration of the loop: usage.merge(self.analyze_script(script)).
AnalyzeAndMerge ==
    /\ cpc = "loop"
    /\ next_script <= Len(scripts)
    /\ usage' = Merge(usage, AnalyzeScript(scripts[next_script]))
    /\ next_script' = next_script + 1
    /\ UNCHANGED <<content, file_path, scripts, cpc, mergeVars, scannerVars,
                   shouldVars, stdout_rejects, treeVars>>

\* The loop is over: the diagnostic line (debug and non-empty usage only),
\* then return usage.  A failing print propagates to the caller.
FinishContent ==
    /\ cpc = "loop"
    /\ next_script > Len(scripts)
    /\ cpc' = IF debug /\ UsageBool(usage) /\ ~PrintSucceeds(file_path)
              THEN "raised" ELSE "returned"
    /\ UNCHANGED <<content, file_path, scripts, next_script, usage, mergeVars,
                   scannerVars, shouldVars, stdout_rejects, treeVars>>

NextContent == Extract \/ AnalyzeAndMerge \/ FinishContent

SpecContent == InitContent /\ [][NextContent]_vars

Range(seq) == {seq[i] : i \in 1..Len(seq)}

\* The snippets merged so far.
Merged == {scripts[i] : i \in 1..(next_script - 1)}

\* C5: blocks holds canonical kinds only, never "unless"; a snippet in which
\* the unless keyword matches contributes "if"; both stay true across merges.
BlocksAreCanonical ==
    /\ usage.blocks \subseteq VALID_BLOCKS
    /\ \A i \in 1..Len(scripts) :
          LET u == AnalyzeScript(scripts[i])
          IN  /\ u.blocks \subseteq VALID_BLOCKS
              /\ HasWord(scripts[i], W_unless) => "if" \in u.blocks
    /\ \A script \in Merged : HasWord(script, W_unless) => "if" \in usage.blocks

\* A snippet with unless and without if has been merged after another one.
BlocksWitness ==
    /\ cpc = "returned"
    /\ Len(scripts) >= 2
    /\ \E i \in 2..Len(scripts) :
          HasWord(scripts[i], W_unless) /\ ~HasWord(scripts[i], W_if)
    /\ usage.blocks = {"if"}

\* C9: scan_content returns the union (OR) over the extracted snippets of
\* their analyze_script results, a function of the set of snippets alone.
ContentIsUnionOfSnippets ==
    cpc = "returned" =>
        /\ usage.commands = UNION {AnalyzeScript(x).commands : x \in Range(scripts)}
        /\ usage.blocks = UNION {AnalyzeScript(x).blocks : x \in Range(scripts)}
        /\ usage.positional = (\E x \in Range(scripts) : AnalyzeScript(x).positional)
        /\ usage = ScanContentUsage(content)

\* One snippet uses show, another an if block, and a snippet was extracted
\* twice.
UnionWitness ==
    /\ cpc = "returned"
    /\ Len(scripts) = 3
    /\ Cardinality(Range(scripts)) = 2
    /\ usage.commands = {<<"s", "h", "o", "w">>}
    /\ usage.blocks = {"if"}

(***************************************************************************)
(* The steps of scan_directories                                           *)
(***************************************************************************)

otherVars == <<mergeVars, shouldVars, contentVars, usage_of>>

\* for directory in directories: dir_results = self.scan_directory(directory)
\* up to the start of the rglob loop (a directory that does not exist has
\* nothing to yield).
EnterDirectory ==
    /\ pc = "dirs"
    /\ ri < Len(roots)
    /\ ri' = ri + 1
    /\ pending' = IF Exists(roots[ri + 1]) THEN RGlob(roots[ri + 1]) ELSE {}
    /\ dir_results' = EmptyMap
    /\ scanned' = EmptyMap
    /\ reads' = NoReads
    /\ writes' = NoReads
    /\ pc' = "walk"
    /\ UNCHANGED <<roots, results, root_results, agg, quiet, fsVars,
                   scannerVars, stdout_rejects, otherVars>>

\* One iteration of the rglob loop, for whichever entry rglob yields next.
Visit ==
    /\ pc = "walk"
    /\ \E path \in pending :
          /\ pending' = pending \ {path}
          /\ IF IsFile(path) /\ ShouldScan(path)
             THEN LET out == ScanFile(path)
                  IN  /\ reads' = [reads EXCEPT ![path] = @ + 1]
                      /\ IF out.raised
                         THEN /\ pc' = "raised"
                              /\ UNCHANGED <<dir_results, scanned, writes>>
                         ELSE /\ pc' = "walk"
                              /\ scanned' = Put(scanned, path, out.usage)
                              /\ dir_results' = Insert(dir_results, path, out.usage)
                              /\ writes' = [writes EXCEPT ![path] =
                                    IF dir_results' = dir_results THEN @ ELSE @ + 1]
             ELSE UNCHANGED <<pc, dir_results, scanned, reads, writes>>
    /\ UNCHANGED <<roots, ri, results, root_results, agg, quiet, fsVars,
                   scannerVars, stdout_rejects, otherVars>>

\* return results (of scan_directory); results.update(dir_results)
LeaveDirectory ==
    /\ pc = "walk"
    /\ pending = {}
    /\ results' = Update(results, dir_results)
    /\ root_results' = Append(root_results, dir_results)
    /\ pc' = "dirs"
    /\ UNCHANGED <<roots, ri, pending, dir_results, scanned, reads, writes, agg,
                   quiet, fsVars, scannerVars, stdout_rejects, otherVars>>

\* return results (of scan_directories)
ReturnResults ==
    /\ pc = "dirs"
    /\ ri = Len(roots)
    /\ pc' = "done"
    /\ UNCHANGED <<roots, ri, pending, dir_results, results, histVars, agg, quiet,
                   fsVars, scannerVars, stdout_rejects, otherVars>>

MaxChanges == 1

\* The environment: between two directories a file is rewritten, or its
\* permissions change.
FileChanges ==
    /\ pc = "dirs"
    /\ 0 < ri /\ ri < Len(roots)
    /\ changes < MaxChanges
    /\ \E f \in {F_a, F_b}, st \in FileStates :
          /\ st # fs[f]
          /\ fs' = [fs EXCEPT ![f] = st]
    /\ changes' = changes + 1
    /\ UNCHANGED <<dirVars, histVars, agg, quiet, scannerVars, stdout_rejects,
                   otherVars>>

\* The results folded into an AggregatedUsage, one file at a time.
AggregateFile ==
    /\ pc = "done"
    /\ \E path \in DOMAIN results \ DOMAIN agg.file_usage :
          agg' = AggregateAdd(agg, path, results[path])
    /\ UNCHANGED <<dirVars, histVars, quiet, fsVars, scannerVars, stdout_rejects,
                   otherVars>>

\* The same call again, on a scanner that differs only in debug = True.
SecondScanner ==
    /\ pc \in {"done", "raised"}
    /\ quiet.kind = "none"
    /\ ~debug
    /\ quiet' = [kind |-> pc, results |-> results]
    /\ debug' = TRUE
    /\ ri' = 0
    /\ pc' = "dirs"
    /\ pending' = {}
    /\ dir_results' = EmptyMap
    /\ results' = EmptyMap
    /\ scanned' = EmptyMap
    /\ reads' = NoReads
    /\ writes' = NoReads
    /\ root_results' = <<>>
    /\ UNCHANGED <<roots, agg, fsVars, include_extensions, exclude_patterns,
                   stdout_rejects, otherVars>>

MaxRoots == 2

RECURSIVE RootLists(_)
RootLists(n) ==
    IF n = 0 THEN {<<>>}
    ELSE LET shorter == RootLists(n - 1)
         IN  shorter \cup {Append(l, r) : l \in shorter, r \in Roots}

\* The state in which scan_directories(roots) is called.
InitTree(rootLists, includeArgs, debugs) ==
    /\ usage_of = ContentUsage
    /\ \E inc \in includeArgs : include_extensions = InitIncludeExtensions(inc)
    /\ exclude_patterns = InitExcludePatterns(NoListArg)
    /\ debug \in debugs
    /\ stdout_rejects \in SUBSET {F_a, F_b}
    /\ fs \in [Files -> FileStates]
    /\ fs[F_v] = [readable |-> TRUE, text |-> T_attrs]
    /\ changes = 0
    /\ roots \in rootLists
    /\ ri = 0
    /\ pc = "dirs"
    /\ pending = {}
    /\ dir_results = EmptyMap
    /\ results = EmptyMap
    /\ scanned = EmptyMap
    /\ reads = NoReads
    /\ writes = NoReads
    /\ root_results = <<>>
    /\ agg = EmptyAggregate
    /\ quiet = [kind |-> "none"]
    /\ IdleMerge
    /\ IdleShould
    /\ IdleContent

(***************************************************************************)
(* Specification SpecDir: scan_directory on one directory of a tree that   *)
(* does not change during the call.                                        *)
(***************************************************************************)

InitDir == InitTree({<<r>> : r \in Roots}, {NoArg, Arg({S_html})}, BOOLEAN)

NextDir == EnterDirectory \/ Visit \/ LeaveDirectory \/ ReturnResults

SpecDir == InitDir /\ [][NextDir]_vars

\* The path lies below the directory.
UnderRoot(path, directory) == StartsAt(path, 1, directory \o S_slash)

\* The files scan_directory(directory) has to scan.
Eligible(directory) ==
    {p \in Files : Exists(directory) /\ UnderRoot(p, directory) /\ ShouldScan(p)}

\* The usage record has nothing in it.
IsEmptyUsage(u) == u.commands = {} /\ u.blocks = {} /\ ~u.positional

\* scan_directory(roots[ri]) has returned its mapping.
DirectoryReturned == pc \in {"dirs", "done"} /\ ri >= 1

\* C2: no scan ends in an error: an unreadable file gives an empty FileUsage,
\* a directory that does not exist gives an empty mapping, and no file is
\* read a second time.
ScanningNeverRaises ==
    /\ pc # "raised"
    /\ \A p \in DOMAIN scanned : ~fs[p].readable => IsEmptyUsage(scanned[p])
    /\ (DirectoryReturned /\ ~Exists(roots[ri])) => dir_results = EmptyMap
    /\ \A p \in Files : reads[p] <= 1

\* C3: the mapping of scan_directory has a key exactly for the files below
\* the directory that pass should_scan and whose scan_file result is not
\* empty, the value is that result, no value is empty, and an unreadable file
\* takes no other file's entry away.
DirectoryMapping ==
    /\ \A p \in DOMAIN dir_results : ~IsEmptyUsage(dir_results[p])
    /\ DOMAIN dir_results = {p \in DOMAIN scanned : ~IsEmptyUsage(scanned[p])}
    /\ \A p \in DOMAIN dir_results : dir_results[p] = scanned[p]
    /\ DirectoryReturned =>
          /\ DOMAIN scanned = Eligible(roots[ri])
          /\ \A p \in Eligible(roots[ri]) :
                (fs[p].readable /\ ~IsEmptyUsage(usage_of[fs[p].text]))
                    => (p \in DOMAIN dir_results
                        /\ dir_results[p] = usage_of[fs[p].text])

\* t was scanned with the default configuration: a.html cannot be read,
\* s/b.HTM has an entry and the excluded s/venv.html has none.
DirectoryMappingWitness ==
    /\ pc = "done"
    /\ roots = <<R_t>>
    /\ ~fs[F_a].readable
    /\ F_a \in DOMAIN scanned
    /\ DOMAIN dir_results = {F_b}
    /\ dir_results[F_b].blocks = {"if"}

\* The mapping the files below the directory determine.
ExpectedMapping(directory) ==
    [p \in {q \in Eligible(directory) :
                fs[q].readable /\ ~IsEmptyUsage(usage_of[fs[q].text])}
        |-> usage_of[fs[p].text]]

\* C10: whatever the order in which rglob yields the entries, each key is
\* written at most once, each entry is the usage of that file's own content
\* at every moment of the scan, and the mapping returned is the one the
\* files determine.
VisitOrderIndependent ==
    /\ \A p \in Files : writes[p] <= 1
    /\ \A p \in DOMAIN dir_results :
          fs[p].readable /\ dir_results[p] = usage_of[fs[p].text]
    /\ \A p \in DOMAIN scanned :
          (fs[p].readable /\ ~IsEmptyUsage(usage_of[fs[p].text]))
              => p \in DOMAIN dir_results
    /\ DirectoryReturned => dir_results = ExpectedMapping(roots[ri])

\* Two files with different usages were scanned, each written once.
VisitOrderWitness ==
    /\ pc = "done"
    /\ DOMAIN dir_results = {F_a, F_b}
    /\ dir_results[F_a] # dir_results[F_b]
    /\ writes[F_a] = 1 /\ writes[F_b] = 1

(***************************************************************************)
(* Specification SpecDirs: scan_directories on a list of directories,      *)
(* files changing between two directories, and the aggregate built from    *)
(* the results.                                                            *)
(***************************************************************************)

InitDirs == InitTree(RootLists(MaxRoots), {NoArg}, BOOLEAN)

NextDirs ==
    \/ EnterDirectory
    \/ Visit
    \/ LeaveDirectory
    \/ ReturnResults
    \/ FileChanges
    \/ AggregateFile

SpecDirs == InitDirs /\ [][NextDirs]_vars

\* The directories scanned so far whose mapping has the key.
Producers(p) == {i \in 1..Len(root_results) : p \in DOMAIN root_results[i]}

\* The last of them.
LastProducer(p) == CHOOSE i \in Producers(p) : \A j \in Producers(p) : j <= i

\* C8: scan_directories returns the mappings of the directories combined:
\* a key has the entry of the last directory in the list that produced it,
\* not a merge with earlier entries.
LastRootWins ==
    pc \in {"dirs", "done"} =>
        /\ DOMAIN results = UNION {DOMAIN root_results[i] : i \in 1..Len(root_results)}
        /\ \A p \in DOMAIN results : results[p] = root_results[LastProducer(p)][p]

\* Two directories produced different entries for one key, and one of them
\* produced a key of its own.
LastRootWitness ==
    /\ pc = "done"
    /\ Len(root_results) = 2
    /\ \E p \in DOMAIN root_results[1] \cap DOMAIN root_results[2] :
          /\ root_results[1][p] # root_results[2][p]
          /\ results[p] = root_results[2][p]
    /\ \E p \in DOMAIN root_results[1] \ DOMAIN root_results[2] :
          results[p] = root_results[1][p]

InitDebug == InitTree(RootLists(MaxRoots), {NoArg}, {FALSE})

NextDebug ==
    \/ EnterDirectory
    \/ Visit
    \/ LeaveDirectory
    \/ ReturnResults
    \/ SecondScanner

SpecDebug == InitDebug /\ [][NextDebug]_vars

\* C6: the scanner with debug on ends as the scanner with debug off did, with
\* the same mapping, also when a file cannot be read or the diagnostic line
\* cannot be printed.
DebugDoesNotAffectResults ==
    (quiet.kind # "none" /\ pc \in {"done", "raised"}) =>
        (pc = quiet.kind /\ results = quiet.results)

====
